---- MODULE Spec2Model ----
(***************************************************************************)
(* Cruise-control script (src/main.py): the vehicle dynamics functions     *)
(* vehicle_update and motor_torque, the plot helper simulate_plot, the     *)
(* closed-loop interconnection `cruise`, and the module-level scenario.    *)
(*                                                                         *)
(* Python floats are modelled as exact rationals <<n, d>> (d > 0, reduced);*)
(* the vehicle velocity additionally carries the IEEE sign bit, because    *)
(* copysign reads it.  Angles are integer multiples of pi/1080 rad.        *)
(***************************************************************************)
EXTENDS Integers, Sequences, FiniteSets, TLC

VARIABLES
    vuDefaults,   \* the shared default dict bound to vehicle_update (params={})
    mtDefaults,   \* the shared default dict bound to motor_torque (params={})
    callerParams, \* the caller's dict object after the last call that passed one
    call,         \* the last call of vehicle_update / motor_torque and its outcome
    ref,          \* the first call ever made (history, for repeatability)
    pc,           \* position of the module-level script
    built,        \* the systems constructed so far, in construction order
    theta_hill,   \* the slope profile built so far (list comprehension over T)
    eq,           \* what find_eqpt returned, and how often it ran
    sim,          \* the input_output_response call: its X0 and response y
    plot,         \* the simulate_plot call: the response and the axis bounds
    loop          \* one evaluation of the closed loop's signals

vars == <<vuDefaults, mtDefaults, callerParams, call, ref,
          pc, built, theta_hill, eq, sim, plot, loop>>

callVars == <<vuDefaults, mtDefaults, callerParams, call, ref>>

----------------------------------------------------------------------------
(* Bounds of the model.                                                     *)

MaxVK == 2        \* velocities are 10*k m/s, |k| <= MaxVK, and the two zeros
MaxThrK == 3      \* throttles are k/2, -MaxThrK <= k <= MaxThrK
MaxGear == 6      \* gears are the integers -MaxGear..MaxGear and a few halves
MaxOmegaK == 6    \* direct motor_torque calls: omega = 210*k, |k| <= MaxOmegaK
MaxRepeatVK == 1  \* repeated calls: velocities 20*k m/s, 0 <= k <= MaxRepeatVK
MaxTrimK == 2     \* trim points: controller state 0..MaxTrimK
MaxSamples == 2   \* samples of the simulated response kept by the model
MaxPlotSamples == 2  \* samples of a response handed to simulate_plot directly
MaxDevK == 3      \* plotted velocities are vref + k/2, |k| <= MaxDevK
MaxLoopK == 3     \* closed-loop evaluation: |v - 20| <= MaxLoopK, controller state 0..MaxLoopK

----------------------------------------------------------------------------
(* Float arithmetic, as exact rationals.                                    *)

Abs(n) == IF n < 0 THEN -n ELSE n

RECURSIVE GCD(_, _)
GCD(a, b) == IF b = 0 THEN a ELSE GCD(b, a % b)

Rat(n, d) ==
    LET s == IF d < 0 THEN -1 ELSE 1
        g == GCD(Abs(n), Abs(d))
    IN  <<(s * n) \div g, (s * d) \div g>>

RInt(n) == <<n, 1>>
RAdd(a, b) == Rat(a[1] * b[2] + b[1] * a[2], a[2] * b[2])
RNeg(a) == <<-a[1], a[2]>>
RSub(a, b) == RAdd(a, RNeg(b))
RMul(a, b) ==
    LET x == Rat(a[1], b[2])
        y == Rat(b[1], a[2])
    IN  Rat(x[1] * y[1], x[2] * y[2])
RDiv(a, b) == RMul(a, Rat(b[2], b[1]))
RLe(a, b) == a[1] * b[2] <= b[1] * a[2]
RLt(a, b) == a[1] * b[2] < b[1] * a[2]
RMax(a, b) == IF RLe(a, b) THEN b ELSE a
RMin(a, b) == IF RLe(a, b) THEN a ELSE b

(* A float whose sign bit matters: [neg |-> sign bit, q |-> magnitude].     *)
(* +0.0 is [neg |-> FALSE, q |-> <<0,1>>], -0.0 is [neg |-> TRUE, ...].     *)
Flt(neg, q) == [neg |-> neg, q |-> q]
Val(f) == IF f.neg THEN RNeg(f.q) ELSE f.q

(* math.copysign(1, x): magnitude 1 with the sign bit of x.                 *)
copysign1(x) == IF x.neg THEN -1 ELSE 1

(* int(gear): truncation toward zero.                                       *)
PyInt(a) == IF a[1] >= 0 THEN a[1] \div a[2] ELSE -((-a[1]) \div a[2])

(* math.sin on the angles k*pi/1080 whose sine is rational (multiples of   *)
(* 30 degrees = 180 units that are not odd multiples of 60 degrees).        *)
SinDomain == {k \in -2160..2160 : k % 180 = 0 /\ (k \div 180) % 12 \in {0, 1, 3, 5, 6, 7, 9, 11}}
sin(k) ==
    LET r == (k \div 180) % 12
    IN  CASE r \in {0, 6}  -> <<0, 1>>
          [] r \in {1, 5}  -> <<1, 2>>
          [] r = 3         -> <<1, 1>>
          [] r \in {7, 11} -> <<-1, 2>>
          [] r = 9         -> <<-1, 1>>

(* np.clip(a, lo, hi) = minimum(maximum(a, lo), hi); hi = None is no bound. *)
ClipLow(a, lo) == RMax(a, lo)
Clip(a, lo, hi) == RMin(RMax(a, lo), hi)

----------------------------------------------------------------------------
(* Parameter dictionaries: functions from a subset of the keys.             *)

EmptyDict == [key \in {} |-> <<0, 1>>]

(* params.get(key, default): the value returned ...                         *)
DictGet(d, key, default) == IF key \in DOMAIN d THEN d[key] ELSE default

(* ... and the dictionary after the call (get never inserts).               *)
DictSetdefault(d, key, default) ==
    [x \in (DOMAIN d) \cup {key} |-> IF x \in DOMAIN d THEN d[x] ELSE default]
DictAfterGet(d, key, default) == d

m_default == <<1000, 1>>
g_default == <<49, 5>>
k_default == <<1, 100>>
alpha_default == <<40, 25, 16, 12, 10>>
Tm_default == <<190, 1>>
omega_m_default == <<420, 1>>
beta_default == <<2, 5>>

----------------------------------------------------------------------------
(* motor_torque(omega, params)                                              *)

motor_torque_NoClip(omega, params) ==
    LET Tm      == DictGet(params, "Tm", Tm_default)
        omega_m == DictGet(params, "omega_m", omega_m_default)
        beta    == DictGet(params, "beta", beta_default)
        dev     == RSub(RDiv(omega, omega_m), RInt(1))
    IN  RMul(Tm, RSub(RInt(1), RMul(beta, RMul(dev, dev))))
motor_torque(omega, params) ==
    LET Tm      == DictGet(params, "Tm", Tm_default)
        omega_m == DictGet(params, "omega_m", omega_m_default)
        beta    == DictGet(params, "beta", beta_default)
        dev     == RSub(RDiv(omega, omega_m), RInt(1))
    IN  ClipLow(RMul(Tm, RSub(RInt(1), RMul(beta, RMul(dev, dev)))), RInt(0))

(* The dictionary after motor_torque's three get calls.                     *)
motor_torque_params_after(params) ==
    DictAfterGet(DictAfterGet(DictAfterGet(params,
        "Tm", Tm_default), "omega_m", omega_m_default), "beta", beta_default)

----------------------------------------------------------------------------
(* vehicle_update(t, x, u, params)                                          *)

(* Python list indexing alpha[i]: -len <= i < len is accepted, a negative   *)
(* index counts from the end; anything else raises IndexError.              *)
IndexOK(list, i) == -Len(list) <= i /\ i < Len(list)
PyIndex(list, i) == IF i >= 0 THEN list[i + 1] ELSE list[Len(list) + i + 1]

(* throttle = np.clip(u[0], 0, 1)                                           *)
throttle_NoUpper(u0) == ClipLow(u0, RInt(0))
throttle_of(u0) == Clip(u0, RInt(0), RInt(1))

(* sign = lambda x: copysign(1, x)                                          *)
sign_ZeroAtZero(x) == IF x.q[1] = 0 THEN 0 ELSE copysign1(x)
sign(x) == copysign1(x)

(* Fr = m * g * k * sign(v)                                                 *)
friction(v, params) ==
    LET m == DictGet(params, "m", m_default)
        g == DictGet(params, "g", g_default)
        k == DictGet(params, "k", k_default)
    IN  RMul(RMul(RMul(m, g), k), RInt(sign(v)))

Ok(dv) == [kind |-> "ok", dv |-> dv]
Raised(exc) == [kind |-> exc, dv |-> <<0, 1>>]

vehicle_update(t, x, u, params) ==
    LET m        == DictGet(params, "m", m_default)
        g        == DictGet(params, "g", g_default)
        alpha    == DictGet(params, "alpha", alpha_default)
        v        == x
        throttle == throttle_of(u[1])
        gear     == u[2]
        theta    == u[3]
        i        == PyInt(gear) - 1
    IN  IF ~IndexOK(alpha, i) THEN Raised("IndexError")
        ELSE
            LET omega == RMul(RInt(PyIndex(alpha, i)), Val(v))
                F     == RMul(RMul(RInt(PyIndex(alpha, i)), motor_torque(omega, params)),
                              throttle)
                Fg    == RMul(RMul(m, g), sin(theta))
                Fr    == friction(v, params)
                Fd    == RAdd(Fg, Fr)
            IN  Ok(RDiv(RSub(F, Fd), m))

(* The dictionary after vehicle_update's get calls: m, g, k, alpha, and,    *)
(* when the gear lookup did not raise, motor_torque's three.                *)
vehicle_update_params_after(params, kind) ==
    LET own == DictAfterGet(DictAfterGet(DictAfterGet(DictAfterGet(params,
                   "m", m_default), "g", g_default), "k", k_default),
                   "alpha", alpha_default)
    IN  IF kind = "ok" THEN motor_torque_params_after(own) ELSE own

----------------------------------------------------------------------------
(* Calls of the two functions, with inputs drawn from bounded sets.         *)

PlusZero == Flt(FALSE, <<0, 1>>)
MinusZero == Flt(TRUE, <<0, 1>>)
Velocities ==
    {PlusZero, MinusZero} \cup
    {Flt(k < 0, RInt(10 * Abs(k))) : k \in (-MaxVK..MaxVK) \ {0}}
Throttles == {Rat(k, 2) : k \in -MaxThrK..MaxThrK}
Gears == {RInt(k) : k \in -MaxGear..MaxGear} \cup
         {<<1, 2>>, <<-1, 2>>, <<9, 2>>, <<11, 2>>}
Slopes == {k \in SinDomain : Abs(k) <= 180}
Omegas == {RInt(210 * k) : k \in -MaxOmegaK..MaxOmegaK}

(* Dictionaries a caller passes: empty, and two partial overrides.          *)
HeavyCar == [m |-> <<1500, 1>>, k |-> <<1, 50>>]
OtherEngine == [Tm |-> <<200, 1>>, omega_m |-> <<400, 1>>, beta |-> <<1, 2>>]
ParamDicts == {EmptyDict, HeavyCar, OtherEngine}

NoCall ==
    [fn |-> "none", x |-> PlusZero, u |-> <<<<0, 1>>, <<1, 1>>, 0>>,
     omega |-> <<0, 1>>, explicit |-> FALSE, params |-> EmptyDict,
     res |-> Ok(<<0, 1>>)]

(* vehicle_update(t, x, u) or vehicle_update(t, x, u, p)                    *)
VehicleUpdateStep(x, u, explicit, p) ==
    LET params == IF explicit THEN p ELSE vuDefaults
        res    == vehicle_update(0, x, u, params)
        after  == vehicle_update_params_after(params, res.kind)
    IN  /\ call' = [fn |-> "vehicle_update", x |-> x, u |-> u, omega |-> <<0, 1>>,
                    explicit |-> explicit, params |-> params, res |-> res]
        /\ vuDefaults' = IF explicit THEN vuDefaults ELSE after
        /\ callerParams' = IF explicit THEN after ELSE callerParams
        /\ mtDefaults' = mtDefaults

(* motor_torque(omega) or motor_torque(omega, p)                            *)
MotorTorqueStep(omega, explicit, p) ==
    LET params == IF explicit THEN p ELSE mtDefaults
        after  == motor_torque_params_after(params)
    IN  /\ call' = [fn |-> "motor_torque", x |-> PlusZero,
                    u |-> <<<<0, 1>>, <<1, 1>>, 0>>, omega |-> omega,
                    explicit |-> explicit, params |-> params,
                    res |-> Ok(motor_torque(omega, params))]
        /\ mtDefaults' = IF explicit THEN mtDefaults ELSE after
        /\ callerParams' = IF explicit THEN after ELSE callerParams
        /\ vuDefaults' = vuDefaults

VehicleUpdateCall ==
    \E x \in Velocities, thr \in Throttles, gear \in Gears, theta \in Slopes,
       explicit \in BOOLEAN, p \in ParamDicts :
        /\ call.fn = "none"
        /\ (~explicit => p = EmptyDict)
        /\ VehicleUpdateStep(x, <<thr, gear, theta>>, explicit, p)
        /\ UNCHANGED <<ref, pc, built, theta_hill, eq, sim, plot, loop>>

MotorTorqueCall ==
    \E omega \in Omegas, explicit \in BOOLEAN, p \in ParamDicts :
        /\ call.fn = "none"
        /\ (~explicit => p = EmptyDict)
        /\ MotorTorqueStep(omega, explicit, p)
        /\ UNCHANGED <<ref, pc, built, theta_hill, eq, sim, plot, loop>>

(* The call returns to its caller, which is then free to call again.        *)
Return ==
    /\ call.fn # "none"
    /\ call' = NoCall
    /\ UNCHANGED <<vuDefaults, mtDefaults, callerParams, ref,
                   pc, built, theta_hill, eq, sim, plot, loop>>

----------------------------------------------------------------------------
(* State after the module has been imported and nothing has run.            *)

None == <<>>
NoEq == [runs |-> 0, found |-> FALSE, X0 |-> None]
NoSim == [runs |-> 0, started |-> FALSE, done |-> FALSE, X0 |-> None,
          y |-> <<<<>>, <<>>>>]
NoPlot == [runs |-> 0, vref |-> 0, y |-> <<<<>>, <<>>>>,
           v_min |-> <<0, 1>>, v_max |-> <<0, 1>>,
           u_min |-> <<0, 1>>, u_max |-> <<0, 1>>]
NoLoop == [evaluated |-> FALSE, ext |-> <<<<0, 1>>, <<0, 1>>, <<0, 1>>>>,
           x |-> <<<<0, 1>>, <<0, 1>>>>,
           control_u |-> <<0, 1>>, control_y |-> <<0, 1>>, vehicle_u |-> <<0, 1>>,
           throttle |-> <<0, 1>>, out |-> <<<<0, 1>>, <<0, 1>>>>]

Init ==
    /\ vuDefaults = EmptyDict
    /\ mtDefaults = EmptyDict
    /\ callerParams = EmptyDict
    /\ call = NoCall
    /\ ref = NoCall
    /\ pc = "start"
    /\ built = <<>>
    /\ theta_hill = <<>>
    /\ eq = NoEq
    /\ sim = NoSim
    /\ plot = NoPlot
    /\ loop = NoLoop

CallsNext == VehicleUpdateCall \/ MotorTorqueCall \/ Return
SpecCalls == Init /\ [][CallsNext]_vars

----------------------------------------------------------------------------
(* Properties of vehicle_update and motor_torque (SpecCalls).               *)

IsVehicleCall == call.fn = "vehicle_update"
SupportedGears == {RInt(gr) : gr \in 1..5}
ClampedThrottle(thr) ==
    IF RLt(thr, RInt(0)) THEN RInt(0) ELSE IF RLt(RInt(1), thr) THEN RInt(1) ELSE thr

(* The acceleration the documentation gives for a throttle already in [0,1]:*)
(* (alpha[gear-1]*torque(alpha[gear-1]*v)*throttle - m*g*sin(slope)         *)
(*  - m*g*k*sign(v)) / m                                                    *)
DocumentedAcceleration(x, throttle, gear, theta, params) ==
    LET m     == DictGet(params, "m", m_default)
        g     == DictGet(params, "g", g_default)
        k     == DictGet(params, "k", k_default)
        alpha == DictGet(params, "alpha", alpha_default)
        a     == RInt(alpha[gear[1]])
        drive == RMul(RMul(a, motor_torque(RMul(a, Val(x)), params)), throttle)
        grade == RMul(RMul(m, g), sin(theta))
        fric  == RMul(RMul(RMul(m, g), k), RInt(sign(x)))
    IN  RDiv(RSub(RSub(drive, grade), fric), m)

(* C1: vehicle_update clamps the throttle to [0,1] before using it: for     *)
(* every velocity, gear in 1..5 and slope, a throttle below 0 gives the     *)
(* acceleration of throttle 0, a throttle above 1 gives the acceleration of *)
(* throttle 1, and a throttle in [0,1] gives the documented acceleration.   *)
C1_ThrottleClamped ==
    (IsVehicleCall /\ call.u[2] \in SupportedGears) =>
        LET thr == call.u[1]
            at(th) == vehicle_update(0, call.x, <<th, call.u[2], call.u[3]>>, call.params)
        IN  /\ call.res.kind = "ok"
            /\ RLt(thr, RInt(0)) => call.res = at(RInt(0))
            /\ RLt(RInt(1), thr) => call.res = at(RInt(1))
            /\ call.res.dv = DocumentedAcceleration(call.x, ClampedThrottle(thr),
                                                    call.u[2], call.u[3], call.params)

(* A call with a throttle above 1 whose engine force is not zero, so the    *)
(* clamp decides the result.                                                *)
C1_Witness ==
    /\ IsVehicleCall
    /\ call.u[2] \in SupportedGears
    /\ RLt(RInt(1), call.u[1])
    /\ call.res.kind = "ok"
    /\ call.res.dv # DocumentedAcceleration(call.x, call.u[1], call.u[2], call.u[3],
                                            call.params)

EngineDefaults(params) == DOMAIN params \cap {"Tm", "omega_m", "beta"} = {}

(* C2: with the default parameters motor_torque returns, for any angular    *)
(* speed (positive, zero or negative), a torque within [0, Tm], and at      *)
(* omega = omega_m exactly Tm.                                              *)
C2_TorqueRange ==
    (call.fn = "motor_torque" /\ EngineDefaults(call.params)) =>
        /\ call.res.kind = "ok"
        /\ RLe(RInt(0), call.res.dv)
        /\ RLe(call.res.dv, Tm_default)
        /\ call.omega = omega_m_default => call.res.dv = Tm_default

C2_Witness ==
    /\ call.fn = "motor_torque"
    /\ EngineDefaults(call.params)
    /\ call.omega = omega_m_default
    /\ call.res.dv = Tm_default

IsZeroVelocity(x) == x.q[1] = 0
FrictionMagnitude(params) ==
    RMul(RMul(DictGet(params, "m", m_default), DictGet(params, "g", g_default)),
         DictGet(params, "k", k_default))
CoastingOnFlat(u) == RLe(u[1], RInt(0)) /\ u[3] = 0
GK(params) == RMul(DictGet(params, "g", g_default), DictGet(params, "k", k_default))

C4_GearRejected ==
    (IsVehicleCall /\ (RLt(call.u[2], RInt(1)) \/ RLt(RInt(5), call.u[2]))) =>
        call.res.kind # "ok"

----------------------------------------------------------------------------
(* Sequences of calls, remembering the first one (SpecFrame).               *)

RepeatVelocities == {Flt(FALSE, RInt(20 * k)) : k \in 0..MaxRepeatVK}
RepeatThrottles == {<<1, 2>>, <<3, 2>>}
RepeatGears == {RInt(4), RInt(6)}
RepeatSlopes == {0, 180}
RepeatOmegas == {RInt(0), RInt(420), RInt(1260)}

Remember == ref' = IF ref.fn = "none" THEN call' ELSE ref

VehicleUpdateRecall ==
    \E x \in RepeatVelocities, thr \in RepeatThrottles, gear \in RepeatGears,
       theta \in RepeatSlopes, explicit \in BOOLEAN, p \in ParamDicts :
        /\ call.fn = "none"
        /\ (~explicit => p = EmptyDict)
        /\ VehicleUpdateStep(x, <<thr, gear, theta>>, explicit, p)
        /\ Remember
        /\ UNCHANGED <<pc, built, theta_hill, eq, sim, plot, loop>>

MotorTorqueRecall ==
    \E omega \in RepeatOmegas, explicit \in BOOLEAN, p \in ParamDicts :
        /\ call.fn = "none"
        /\ (~explicit => p = EmptyDict)
        /\ MotorTorqueStep(omega, explicit, p)
        /\ Remember
        /\ UNCHANGED <<pc, built, theta_hill, eq, sim, plot, loop>>

FrameNext == VehicleUpdateRecall \/ MotorTorqueRecall \/ Return
SpecFrame == Init /\ [][FrameNext]_vars

SameArguments(c, d) ==
    /\ c.fn = d.fn
    /\ c.x = d.x
    /\ c.u = d.u
    /\ c.omega = d.omega
    /\ c.explicit = d.explicit
    /\ c.explicit => c.params = d.params

(* C10: vehicle_update and motor_torque have no side effects on their       *)
(* parameters: after any sequence of calls the dictionary passed in and the *)
(* shared default dictionaries are unchanged, so a call returns what the    *)
(* first call with the same arguments returned, whatever came in between.   *)
C10_NoSideEffects ==
    /\ vuDefaults = EmptyDict
    /\ mtDefaults = EmptyDict
    /\ (call.fn # "none" /\ call.explicit) => callerParams = call.params
    /\ (call.fn # "none" /\ SameArguments(call, ref)) => call.res = ref.res

(* The first call is repeated, without params, after a call that passed the *)
(* HeavyCar dictionary.                                                     *)
C10_Witness ==
    /\ call.fn = "vehicle_update"
    /\ ~call.explicit
    /\ SameArguments(call, ref)
    /\ call.res.kind = "ok"
    /\ callerParams = HeavyCar

----------------------------------------------------------------------------
(* The systems built by the script.                                         *)

vehicle == [name |-> "vehicle", inputs |-> <<"u", "gear", "theta">>,
            outputs |-> <<"v">>, states |-> <<"v">>]

(* ct.TransferFunction([Kp, Ki], [1, 0.01*Ki/Kp]) as an I/O system: one     *)
(* state xc, y = (Ki - Kp*0.01*Ki/Kp) * xc + Kp * u.                        *)
Kp == <<1, 2>>
Ki == <<1, 10>>
controller == [name |-> "control", inputs |-> <<"u">>, outputs |-> <<"y">>,
               states |-> <<"x[0]">>]
controller_pole == RMul(<<1, 100>>, RDiv(Ki, Kp))
controller_output(xc, u) ==
    RAdd(RMul(RSub(Ki, RMul(Kp, controller_pole)), xc), RMul(Kp, u))

(* Signal specifications: 'sys.sig', or '-sys.sig' for a negated signal.    *)
ParseSignal(spec) ==
    IF spec[1] = "-" THEN [port |-> <<spec[2], spec[3]>>, gain |-> -1]
    ELSE [port |-> <<spec[1], spec[2]>>, gain |-> 1]

cruise_connections_PositiveFeedback ==
    << <<<<"control", "u">>, <<"vehicle", "v">>>>,
       <<<<"vehicle", "u">>, <<"control", "y">>>> >>
cruise_connections ==
    << <<<<"control", "u">>, <<"-", "vehicle", "v">>>>,
       <<<<"vehicle", "u">>, <<"control", "y">>>> >>
cruise_outlist == << <<"vehicle", "v">>, <<"vehicle", "u">> >>
cruise ==
    [name |-> "cruise",
     syslist |-> <<vehicle, controller>>,
     connections |-> cruise_connections,
     inplist |-> << <<"control", "u">>, <<"vehicle", "gear">>, <<"vehicle", "theta">> >>,
     inputs |-> <<"vref", "gear", "theta">>,
     outlist |-> cruise_outlist,
     outputs |-> <<"v", "u">>]

(* sys.find_output(name): the 0-based index of the named output.            *)
find_output(sys, name) ==
    (CHOOSE i \in 1..Len(sys.outputs) : sys.outputs[i] = name) - 1

(* The value arriving at a subsystem input port: the external inputs routed *)
(* to it plus the connected subsystem outputs, each times its gain.         *)
RECURSIVE ExternalPart(_, _, _, _)
ExternalPart(sys, port, ext, i) ==
    IF i = 0 THEN <<0, 1>>
    ELSE RAdd(ExternalPart(sys, port, ext, i - 1),
              IF sys.inplist[i] = port THEN ext[i] ELSE <<0, 1>>)
RECURSIVE ConnectedPart(_, _, _, _)
ConnectedPart(sys, port, ylist, i) ==
    IF i = 0 THEN <<0, 1>>
    ELSE LET c   == sys.connections[i]
             src == ParseSignal(c[2])
         IN  RAdd(ConnectedPart(sys, port, ylist, i - 1),
                  IF c[1] = port THEN RMul(RInt(src.gain), ylist[src.port])
                  ELSE <<0, 1>>)
PortInput(sys, port, ext, ylist) ==
    RAdd(ExternalPart(sys, port, ext, Len(sys.inplist)),
         ConnectedPart(sys, port, ylist, Len(sys.connections)))

OutputPorts == {<<"vehicle", "v">>, <<"control", "y">>}
(* One pass over the subsystems: each output from its state and inputs.     *)
SubsystemOutputs(sys, x, ext, ylist) ==
    [port \in OutputPorts |->
        IF port = <<"vehicle", "v">> THEN x[1]
        ELSE controller_output(x[2], PortInput(sys, <<"control", "u">>, ext, ylist))]
(* The outputs settle after one pass per subsystem, starting from zero.     *)
SettledOutputs(sys, x, ext) ==
    LET y0 == [port \in OutputPorts |-> <<0, 1>>]
        y1 == SubsystemOutputs(sys, x, ext, y0)
    IN  SubsystemOutputs(sys, x, ext, y1)

(* An entry of outlist names a subsystem output or a subsystem input.       *)
ExposedOutput(sys, x, ext, i) ==
    LET ylist == SettledOutputs(sys, x, ext)
        port  == sys.outlist[i]
    IN  IF port \in OutputPorts THEN ylist[port]
        ELSE PortInput(sys, port, ext, ylist)

LoopVelocities == {RInt(20 + k) : k \in -MaxLoopK..MaxLoopK}
LoopControllerStates == {RInt(10 * k) : k \in 0..MaxLoopK}
LoopReferences == {RInt(15), RInt(20), RInt(25)}

(* The closed loop's signals at one instant of the simulation.              *)
EvaluateLoop ==
    \E v \in LoopVelocities, xc \in LoopControllerStates, r \in LoopReferences,
       theta \in {RInt(0), RInt(24)} :
        LET x     == <<v, xc>>
            ext   == <<r, RInt(4), theta>>
            ylist == SettledOutputs(cruise, x, ext)
            vu    == PortInput(cruise, <<"vehicle", "u">>, ext, ylist)
        IN  /\ loop' = [evaluated |-> TRUE, ext |-> ext, x |-> x,
                        control_u |-> PortInput(cruise, <<"control", "u">>, ext, ylist),
                        control_y |-> ylist[<<"control", "y">>],
                        vehicle_u |-> vu,
                        throttle |-> throttle_of(vu),
                        out |-> <<ExposedOutput(cruise, x, ext, 1),
                                  ExposedOutput(cruise, x, ext, 2)>>]
            /\ UNCHANGED <<callVars, pc, built, theta_hill, eq, sim, plot>>

LoopNext == EvaluateLoop
SpecLoop == Init /\ [][LoopNext]_vars

(* C7: in the closed loop the controller's input is vref minus the vehicle  *)
(* velocity, the vehicle's throttle input is the controller output, the     *)
(* exposed output 'u' is that controller output before the vehicle's clamp  *)
(* (it may lie outside [0,1]) and the exposed output 'v' is the velocity.   *)
C7_ClosedLoopWiring ==
    loop.evaluated =>
        /\ loop.control_u = RSub(loop.ext[1], loop.x[1])
        /\ loop.vehicle_u = loop.control_y
        /\ loop.out[find_output(cruise, "u") + 1] = loop.control_y
        /\ loop.out[find_output(cruise, "v") + 1] = loop.x[1]

(* The controller asks for more than full throttle; 'u' shows the request.  *)
C7_Witness ==
    /\ loop.evaluated
    /\ RLt(RInt(1), loop.control_y)
    /\ loop.out[2] = loop.control_y
    /\ loop.throttle = RInt(1)
    /\ loop.ext[1] # loop.x[1]

----------------------------------------------------------------------------
(* simulate_plot(sys, t, y, t_hill=..., vref=...): the axis bounds it sets. *)

RECURSIVE SeqMax(_)
SeqMax(q) == IF Len(q) = 1 THEN q[1] ELSE RMax(q[1], SeqMax(Tail(q)))
RECURSIVE SeqMin(_)
SeqMin(q) == IF Len(q) = 1 THEN q[1] ELSE RMin(q[1], SeqMin(Tail(q)))

(* while max(y[v_ind]) > v_max: v_max += 1                                  *)
RECURSIVE RaiseBound(_, _)
RaiseBound(bound, top) ==
    IF RLt(bound, top) THEN RaiseBound(RAdd(bound, RInt(1)), top) ELSE bound
(* while min(y[v_ind]) < v_min: v_min -= 1                                  *)
RECURSIVE LowerBound(_, _)
LowerBound(bound, bottom) ==
    IF RLt(bottom, bound) THEN LowerBound(RSub(bound, RInt(1)), bottom) ELSE bound

simulate_plot(sys, y, vref) ==
    LET v_ind == find_output(sys, "v")
        u_ind == find_output(sys, "u")
    IN  [runs  |-> 1, vref |-> vref, y |-> y,
         v_min |-> LowerBound(RSub(RInt(vref), <<6, 5>>), SeqMin(y[v_ind + 1])),
         v_max |-> RaiseBound(RAdd(RInt(vref), <<1, 2>>), SeqMax(y[v_ind + 1])),
         u_min |-> RInt(0),
         u_max |-> RInt(1)]

RECURSIVE Tuples(_, _)
Tuples(S, n) ==
    IF n = 0 THEN {<<>>}
    ELSE {<<a>> \o rest : a \in S, rest \in Tuples(S, n - 1)}

PlotReferences == {10, 20}
PlotVelocities(vref) == {RAdd(RInt(vref), Rat(k, 2)) : k \in -MaxDevK..MaxDevK}
PlotCommands == {Rat(k, 2) : k \in -1..3}

SimulatePlotCall ==
    \E vref \in PlotReferences :
        \E yv \in Tuples(PlotVelocities(vref), MaxPlotSamples),
           yu \in Tuples(PlotCommands, MaxPlotSamples) :
            /\ plot.runs = 0
            /\ plot' = simulate_plot(cruise, <<yv, yu>>, vref)
            /\ UNCHANGED <<callVars, pc, built, theta_hill, eq, sim, loop>>

PlotReturn ==
    /\ plot.runs = 1
    /\ plot' = NoPlot
    /\ UNCHANGED <<callVars, pc, built, theta_hill, eq, sim, loop>>

PlotNext == SimulatePlotCall \/ PlotReturn
SpecPlot == Init /\ [][PlotNext]_vars

(* C9: simulate_plot scales the axes of both panels so that every response  *)
(* value is inside the plotted range: v_min <= min(y[v]), max(y[v]) <=      *)
(* v_max, u_min <= min(y[u]) and max(y[u]) <= u_max.                        *)
C9_AxesIncludeResponse ==
    plot.runs = 1 =>
        /\ RLe(plot.v_min, SeqMin(plot.y[1]))
        /\ RLe(SeqMax(plot.y[1]), plot.v_max)
        /\ RLe(plot.u_min, SeqMin(plot.y[2]))
        /\ RLe(SeqMax(plot.y[2]), plot.u_max)

----------------------------------------------------------------------------
(* The module-level scenario (SpecScript).                                  *)

(* np.linspace(start, stop, num)[i], i = 0..num-1                           *)
linspace(start, stop, num, i) ==
    RAdd(RInt(start), RMul(RInt(i), Rat(stop - start, num - 1)))
NGrid == 151
T(i) == linspace(0, 25, NGrid, i)

(* math.pi in the model's angle unit, pi/1080 rad.                          *)
pi == RInt(1080)

(* One element of theta_hill:                                               *)
(*   0 if t <= 5 else 4./180.*pi*(t-5) if t <= 6 else 4./180.*pi            *)
theta_hill_RampFromZero(t) ==
    IF RLe(t, RInt(5)) THEN RInt(0)
    ELSE IF RLe(t, RInt(6)) THEN RMul(RMul(Rat(4, 180), pi), t)
    ELSE RMul(Rat(4, 180), pi)
theta_hill_at(t) ==
    IF RLe(t, RInt(5)) THEN RInt(0)
    ELSE IF RLe(t, RInt(6)) THEN RMul(RMul(Rat(4, 180), pi), RSub(t, RInt(5)))
    ELSE RMul(Rat(4, 180), pi)

vref0 == 20

BuildVehicle ==
    /\ pc = "start"
    /\ built' = Append(built, vehicle.name)
    /\ pc' = "controller"
    /\ UNCHANGED <<callVars, theta_hill, eq, sim, plot, loop>>

BuildController ==
    /\ pc = "controller"
    /\ built' = Append(built, controller.name)
    /\ pc' = "cruise"
    /\ UNCHANGED <<callVars, theta_hill, eq, sim, plot, loop>>

BuildCruise ==
    /\ pc = "cruise"
    /\ built' = Append(built, cruise.name)
    /\ pc' = "hill"
    /\ UNCHANGED <<callVars, theta_hill, eq, sim, plot, loop>>

(* The list comprehension over T, one element per step.                     *)
HillStep ==
    /\ pc = "hill"
    /\ Len(theta_hill) < NGrid
    /\ theta_hill' = Append(theta_hill, theta_hill_at(T(Len(theta_hill))))
    /\ pc' = IF Len(theta_hill') = NGrid THEN "trim" ELSE "hill"
    /\ UNCHANGED <<callVars, built, eq, sim, plot, loop>>

(* X0, U0 = ct.find_eqpt(cruise, ...): a trim state at the reference        *)
(* velocity, or (None, None) when the solver does not converge.             *)
TrimStates == {<<vref0, k>> : k \in 0..MaxTrimK}
FindEqpt ==
    /\ pc = "trim"
    /\ \/ \E X0 \in TrimStates :
            eq' = [runs |-> eq.runs + 1, found |-> TRUE, X0 |-> X0]
       \/ eq' = [runs |-> eq.runs + 1, found |-> FALSE, X0 |-> None]
    /\ pc' = "simulate"
    /\ UNCHANGED <<callVars, built, theta_hill, sim, plot, loop>>

(* The initial state handed to input_output_response: X0, unchecked.        *)
InitialState_Default(e) == <<0, 0>>
InitialState(e) == e.X0

(* The response: its first velocity sample is the initial state's.          *)
Responses(X0) ==
    {<<yv, yu>> : yv \in {<<RInt(X0[1])>> \o rest :
                            rest \in Tuples({RInt(19), RInt(20), RInt(21)},
                                            MaxSamples - 1)},
                  yu \in Tuples({<<0, 1>>, <<1, 2>>, <<3, 2>>}, MaxSamples)}

(* t, y = ct.input_output_response(cruise, T, [vref, gear, theta_hill], X0) *)
(* Handed None, the library either rejects the argument or falls back to    *)
(* its default initial state.                                               *)
Simulate ==
    /\ pc = "simulate"
    /\ LET X0 == InitialState(eq)
       IN  \/ /\ X0 # None
              /\ \E y \in Responses(X0) :
                    sim' = [runs |-> sim.runs + 1, started |-> TRUE, done |-> TRUE,
                            X0 |-> X0, y |-> y]
              /\ pc' = "plot"
           \/ /\ X0 = None
              /\ \E y \in Responses(<<0, 0>>) :
                    sim' = [runs |-> sim.runs + 1, started |-> TRUE, done |-> TRUE,
                            X0 |-> X0, y |-> y]
              /\ pc' = "plot"
           \/ /\ X0 = None
              /\ sim' = [runs |-> sim.runs + 1, started |-> TRUE, done |-> FALSE,
                         X0 |-> X0, y |-> <<<<>>, <<>>>>]
              /\ pc' = "failed"
    /\ UNCHANGED <<callVars, built, theta_hill, eq, plot, loop>>

(* simulate_plot(cruise, t, y, t_hill=5, subplots=subplots)                 *)
Plot ==
    /\ pc = "plot"
    /\ plot' = [simulate_plot(cruise, sim.y, vref0) EXCEPT !.runs = plot.runs + 1]
    /\ pc' = "show"
    /\ UNCHANGED <<callVars, built, theta_hill, eq, sim, loop>>

Show ==
    /\ pc = "show"
    /\ pc' = "done"
    /\ UNCHANGED <<callVars, built, theta_hill, eq, sim, plot, loop>>

ScriptNext ==
    \/ BuildVehicle
    \/ BuildController
    \/ BuildCruise
    \/ HillStep
    \/ FindEqpt
    \/ Simulate
    \/ Plot
    \/ Show
SpecScript == Init /\ [][ScriptNext]_vars

(* C5: if find_eqpt does not converge, the run surfaces that failure and    *)
(* the trajectory simulation is never started with a missing, stale or      *)
(* default initial state.                                                   *)
C5_TrimFailureSurfaced ==
    (eq.runs > 0 /\ ~eq.found) =>
        /\ ~sim.started
        /\ pc \in {"simulate", "failed"}

IsPrefix(p, q) == Len(p) <= Len(q) /\ \A i \in 1..Len(p) : p[i] = q[i]

(* C6: the scenario is one strictly ordered pipeline: vehicle, controller   *)
(* and interconnection are built first, then the trim point is computed     *)
(* exactly once, then the simulation runs exactly once with that trim state *)
(* as its initial state, then the plot is rendered from that simulation's   *)
(* output; no stage starts before its predecessor finished or runs twice.   *)
C6_OrderedPipeline ==
    /\ IsPrefix(built, <<"vehicle", "control", "cruise">>)
    /\ eq.runs <= 1 /\ sim.runs <= 1 /\ plot.runs <= 1
    /\ eq.runs = 1 => (Len(built) = 3 /\ Len(theta_hill) = NGrid)
    /\ sim.runs = 1 => (eq.runs = 1 /\ sim.X0 = eq.X0)
    /\ plot.runs = 1 => (sim.runs = 1 /\ sim.done /\ plot.y = sim.y)
    /\ pc = "done" => (eq.runs = 1 /\ sim.runs = 1 /\ plot.runs = 1)

C6_Witness ==
    /\ pc = "done"
    /\ eq.found
    /\ sim.X0 = eq.X0
    /\ sim.X0 # None
    /\ plot.y = sim.y

(* C8: over the time grid theta_hill is 0 for t <= 5, (4/180)*pi*(t-5) for  *)
(* 5 < t <= 6 and (4/180)*pi for t > 6; so it is non-decreasing along the   *)
(* grid, stays within [0, (4/180)*pi], and has no jump at t = 5 or t = 6.   *)
FourDegrees == RInt(24)
C8_SlopeProfile ==
    \A i \in 1..Len(theta_hill) :
        LET t  == Rat(i - 1, 6)
            th == theta_hill[i]
        IN  /\ RLe(t, RInt(5)) => th = RInt(0)
            /\ (RLt(RInt(5), t) /\ RLe(t, RInt(6))) =>
                    th = RMul(FourDegrees, RSub(t, RInt(5)))
            /\ RLt(RInt(6), t) => th = FourDegrees
            /\ RLe(RInt(0), th) /\ RLe(th, FourDegrees)
            /\ i > 1 =>
                /\ RLe(theta_hill[i - 1], th)
                /\ RLe(RSub(th, theta_hill[i - 1]), RMul(FourDegrees, <<1, 6>>))

C8_Witness ==
    /\ Len(theta_hill) = NGrid
    /\ theta_hill[31] = RInt(0)
    /\ theta_hill[34] = RInt(12)
    /\ theta_hill[37] = FourDegrees
    /\ theta_hill[NGrid] = FourDegrees

====
